---- MODULE Spec2Model ----
(***************************************************************************)
(* Model of the retrying HTTP client (utils/teamcity_client.py) and of the *)
(* condition poller (utils/test_helpers.py) of the KotlinDSL test harness. *)
(*                                                                         *)
(* One sequential flow of control: at any time at most one call is active, *)
(* either an endpoint operation of TeamCityClient (which runs              *)
(* _make_request), TestHelpers.wait_for_condition, or                      *)
(* TeamCityClient.wait_for_build_completion, whose status polls are nested *)
(* endpoint operations.  Time is an integer                                *)
(* clock `now`; time.sleep(d) advances it by exactly d, and sending a      *)
(* request or evaluating a predicate takes no time.                        *)
(***************************************************************************)
EXTENDS Integers, Sequences, FiniteSets, TLC

(* ------------------------------ bounds -------------------------------- *)
MaxR == 3          \* largest configured MAX_RETRIES explored
MaxStart == 1      \* wall-clock readings at which a call may start: 0..MaxStart
MaxT == 5          \* largest timeout passed to wait_for_condition
MaxP == 3          \* largest poll_interval passed to wait_for_condition
MaxW == 5          \* latest instant W at which the predicate is still false
MaxBT == 5         \* largest timeout passed to wait_for_build_completion
MaxHT == 2         \* largest timeout of a wait on a server predicate
MaxHP == 1         \* largest poll_interval of a wait on a server predicate
MaxClones == 2     \* most temporary directories one GitOperations makes
MaxLR == 2         \* largest MAX_RETRIES in the check of termination

(* ------------------------- program constants -------------------------- *)
POLL_INTERVAL == 2

(* ------------------------------ domains ------------------------------- *)
Operations ==
  {"get_projects", "get_project", "create_project", "delete_project",
   "get_versioned_settings", "enable_versioned_settings",
   "trigger_versioned_settings_sync", "get_build_configurations",
   "trigger_build", "get_build_status", "get_vcs_roots", "create_vcs_root"}

\* HTTP statuses a server may answer with (one representative per class,
\* two for 2xx).
Statuses == {200, 204, 304, 404, 500}

\* Transport-level faults raised by session.request.
TransportFaults == {"ConnectionError", "Timeout"}

\* What one session.request call can produce: a response with a status, or
\* a transport fault.
Outcomes ==
  [type : {"Response"}, status : Statuses]
    \cup [type : TransportFaults, status : {0}]

NoOutcome == [type |-> "None", status |-> 0]
NoError == [n |-> 0, cls |-> "None", cause |-> NoOutcome]

StartTimes == 0..MaxStart

\* Project ids on the server: a project the tests do not touch, which
\* stays on the server, and the id the tests and scenarios use. TestIds:
\* the ids starting with 'Test'.
ProjectIds == {"TestProj_1", "Prod_1"}
TestIds == {"TestProj_1"}

\* Operations whose first argument is a project id sent in the request.
ProjectOps == {"create_project", "delete_project", "get_project"}

\* Predicates the scenario tests pass to wait_for_condition that call the
\* server: project_ready and build_config_exists.
HttpPredicates == {"project_ready", "build_config_exists"}
PredKinds == {"always", "after", "never"} \cup HttpPredicates

\* What the predicate finds in a decoded answer: the awaited content, other
\* content, or an answer without the field it reads.
Bodies == {"match", "nomatch", "missing"}

\* Values of build_info.get('state') a status poll may yield; "absent" is
\* a payload without a state entry.
\* The scenarios that build a request from settings.GIT_REPO_URL.
Scenarios == {"test_import_with_vcs_integration",
              "test_project_usability_after_import",
              "setup_versioned_project",
              "setup_pipeline_project",
              "test_multiple_stage_pipeline",
              "test_pipeline_failure_handling"}

\* Values of settings.GIT_REPO_URL: the default '' and a configured URL.
RepoUrls == {"", "https://git.example/repo.git"}

BuildStates == {"queued", "running", "finished", "canceled", "absent"}

VARIABLES
  pc,             \* position of the single flow of control
  MAX_RETRIES,    \* settings.MAX_RETRIES as configured for this run
  now,            \* time.time()
  \* --- TeamCityClient: one endpoint operation and its _make_request ---
  op,             \* the endpoint operation being executed ("none" if none)
  attempt,        \* loop variable of `for attempt in range(MAX_RETRIES)`
  trace,          \* history: requests sent and sleeps taken by this call
  errors,         \* history: exceptions caught by this call, in order
  response,       \* what _make_request returned (NoOutcome = None)
  mrResult,       \* "none" | "returned" | "raised"
  raisedErr,      \* the exception _make_request raised
  opResult,       \* how the endpoint operation ended
  arg,            \* project id the operation was called with ("none" if none)
  applied,        \* history: times the server applied this call's request
  projectsAtCall, \* history: the server's projects when the call started
  \* --- the remote server ---
  projects,       \* ids of the projects that exist on the server
  \* --- TestHelpers.wait_for_condition ---
  timeout, poll_interval,   \* arguments T and P
  predKind, W,              \* the predicate: true strictly after W
  start_time,               \* local start_time
  evals, sleeps,            \* history: predicate evaluations, sleeps
  waitResult,               \* "none" | "True" | class of the exception
  lastPred,                 \* history: how the last server predicate ended
  \* --- the frame that called the endpoint operation ---
  caller,         \* "none" (a direct call) | "build_wait" | "predicate" |
                  \* "cleanup" | "scenario"
  \* --- TeamCityClient.wait_for_build_completion ---
  bwTimeout,      \* argument timeout
  bwStart,        \* local start_time
  bwPolls,        \* history: number of get_build_status calls made
  polled,         \* history: the states returned by the status polls
  bwSleeps,       \* history: number of sleeps taken by the wait loop
  bwResult,       \* how the wait ended
  \* --- scripts/cleanup.py ---
  cuListed,       \* history: "none" | "ok" | "failed" (get_projects)
  cuTodo,         \* test_projects not yet visited by the for loop
  cuFailed,       \* history: ids whose delete_project did not succeed
  exitCode,       \* argument of sys.exit (-1 while running)
  \* --- a scenario test ---
  scenario,       \* name of the running scenario ("none" if none)
  gitUrl,         \* settings.GIT_REPO_URL as configured for the scenario
  vcsUrl,         \* url property of vcs_data ("unset" before it is built)
  scOutcome,      \* "none" | "skipped" | "failed" | "vcs_root_created"
  \* --- GitOperations: one instance and the directories it made ---
  temp_dir,       \* self.temp_dir: 0 (None) or the number of a directory
  repo,           \* self.repo: 0 (None), a directory, or -1 (caller's dir)
  gitDirs,        \* the temporary directories of the instance that exist
  gitMade,        \* history: number of tempfile.mkdtemp() calls
  gitEnd          \* "none" | "cleanup" | "exit" | "exit_exception"

clientVars == <<op, attempt, trace, errors, response, mrResult, raisedErr,
                opResult, arg, applied, projectsAtCall>>
waitVars == <<timeout, poll_interval, predKind, W, start_time, evals, sleeps,
              waitResult, lastPred>>
bwVars == <<bwTimeout, bwStart, bwPolls, polled, bwSleeps, bwResult>>
cleanupVars == <<cuListed, cuTodo, cuFailed, exitCode>>
scenarioVars == <<scenario, gitUrl, vcsUrl, scOutcome>>
gitVars == <<temp_dir, repo, gitDirs, gitMade, gitEnd>>
frameVars == <<caller, bwVars, cleanupVars, scenarioVars, gitVars>>
vars == <<pc, MAX_RETRIES, projects, now, clientVars, waitVars, frameVars>>

NoOpResult == [kind |-> "none", value |-> "none", err |-> NoError]

ClientIdle ==
  /\ op = "none" /\ attempt = 0 /\ trace = <<>> /\ errors = <<>>
  /\ response = NoOutcome /\ mrResult = "none" /\ raisedErr = NoError
  /\ opResult = NoOpResult
  /\ arg = "none" /\ applied = 0 /\ projectsAtCall = {}

NoPred == [failure |-> "none", value |-> "none"]

WaitIdle ==
  /\ timeout = 0 /\ poll_interval = 0 /\ predKind = "none" /\ W = 0
  /\ start_time = 0 /\ evals = 0 /\ sleeps = 0 /\ waitResult = "none"
  /\ lastPred = NoPred

NoBuildResult == [kind |-> "none", payload |-> "none", err |-> NoError,
                  msg |-> "none"]

BuildWaitIdle ==
  /\ bwTimeout = 0 /\ bwStart = 0 /\ bwPolls = 0 /\ polled = <<>>
  /\ bwSleeps = 0
  /\ bwResult = NoBuildResult

CleanupIdle ==
  cuListed = "none" /\ cuTodo = {} /\ cuFailed = {} /\ exitCode = -1

ScenarioIdle ==
  /\ scenario = "none" /\ gitUrl = "unset" /\ vcsUrl = "unset"
  /\ scOutcome = "none"

\* GitOperations.__init__
GitIdle ==
  /\ temp_dir = 0 /\ repo = 0 /\ gitDirs = {} /\ gitMade = 0
  /\ gitEnd = "none"

Init ==
  /\ pc = "idle"
  /\ MAX_RETRIES \in 0..MaxR
  /\ projects \in {S \cup {"Prod_1"} : S \in SUBSET TestIds}
  /\ now = 0
  /\ ClientIdle
  /\ WaitIdle
  /\ caller = "none"
  /\ BuildWaitIdle
  /\ CleanupIdle
  /\ ScenarioIdle
  /\ GitIdle

(* ------------------------- the remote server -------------------------- *)

\* Requests that change the server when it applies them.
SideEffectOps ==
  {"create_project", "delete_project", "create_vcs_root", "trigger_build"}

\* What the server may do with one request of operation o: answer with
\* outcome out, having applied the request (ap) or not.  A request that is
\* applied is answered with a success status unless the answer is lost on
\* the way (a transport fault); a request that is not applied is never
\* answered with a success status.  Creating a project whose id exists and
\* deleting a project that does not exist are rejected with an error status.
ServerAllows(o, id, projs, out, ap) ==
  LET success == out.type = "Response" /\ out.status \in {200, 204}
      lost == out.type \in TransportFaults
      error == out.type = "Response" /\ out.status >= 400
  IN  IF o \notin SideEffectOps
        THEN ~ap
        ELSE IF \/ o = "create_project" /\ id \in projs
                \/ o = "delete_project" /\ id \notin projs
               THEN ~ap /\ (error \/ lost)
               ELSE \/ ap /\ (success \/ lost)
                    \/ ~ap /\ ~success

\* The server's projects after it has applied one request.
ServerApply(o, id, projs) ==
  CASE o = "create_project" -> projs \cup {id}
    [] o = "delete_project" -> projs \ {id}
    [] OTHER -> projs

(* ------------------- TeamCityClient._make_request --------------------- *)

\* Variant: only server errors (5xx) raise.
RaisesForStatus_ServerErrorsOnly(s) == s >= 500 /\ s < 600

\* Variant: only status 200 counts as success.
RaisesForStatus_Only200(s) == s # 200

\* response.raise_for_status(): HTTPError for 4xx and 5xx statuses only.
RaisesForStatus(s) == s >= 400 /\ s < 600

\* Class of the exception an outcome leads to inside the try block.
ExcClass(o) == IF o.type = "Response" THEN "HTTPError" ELSE o.type

\* Variant: the except clause names HTTPError only.
IsRequestException_HTTPOnly(c) == c = "HTTPError"

\* Variant: the except clause names the transport faults only.
IsRequestException_TransportOnly(c) == c \in {"ConnectionError", "Timeout"}

\* `except requests.exceptions.RequestException`: HTTPError, ConnectionError
\* and Timeout are all subclasses of RequestException.
IsRequestException(c) == c \in {"HTTPError", "ConnectionError", "Timeout"}

\* Variant: the last iteration is taken to be number MAX_RETRIES.
IsLastAttempt_OffByOne(a, r) == a = r

\* `if attempt == settings.MAX_RETRIES - 1`
IsLastAttempt(a, r) == a = r - 1

\* Variant: the first exception caught is the one raised.
ErrorToRaise_First(errs) == errs[1]

\* bare `raise` inside the except block: re-raises the exception being
\* handled, which is the one caught in this iteration.
ErrorToRaise(errs) == errs[Len(errs)]

\* Variant: the delay between attempts is one time unit.
RetrySleepEnd_Short(t) == t + 1

\* time.sleep(settings.POLL_INTERVAL) between two attempts.
RetrySleepEnd(t) == t + POLL_INTERVAL

ReqEvent(o) == [kind |-> "req", at |-> now, outcome |-> o, d |-> 0]
SleepEvent(d) == [kind |-> "sleep", at |-> now, outcome |-> NoOutcome, d |-> d]

\* An endpoint operation is called; it enters _make_request.
Call(o) ==
  /\ pc = "idle"
  /\ o \in Operations
  /\ \E t \in StartTimes : now' = t
  /\ op' = o
  /\ IF o \in ProjectOps
       THEN \E id \in TestIds : arg' = id
       ELSE arg' = "none"
  /\ projectsAtCall' = projects
  /\ attempt' = 0
  /\ pc' = "attempt"
  /\ UNCHANGED <<MAX_RETRIES, projects, trace, errors, response, mrResult,
                 raisedErr, opResult, applied, waitVars, frameVars>>

\* One iteration of the for loop: send the request, then return the
\* response, raise, or go to sleep before the next iteration.
Attempt ==
  /\ pc = "attempt"
  /\ attempt < MAX_RETRIES
  /\ \E o \in Outcomes, ap \in BOOLEAN :
       /\ ServerAllows(op, arg, projects, o, ap)
       /\ projects' = IF ap THEN ServerApply(op, arg, projects) ELSE projects
       /\ applied' = IF ap THEN applied + 1 ELSE applied
       /\ trace' = Append(trace, ReqEvent(o))
       /\ IF o.type = "Response" /\ ~RaisesForStatus(o.status)
            THEN /\ response' = o
                 /\ mrResult' = "returned"
                 /\ pc' = "mr_exit"
                 /\ UNCHANGED <<errors, raisedErr>>
            ELSE LET e == [n |-> attempt + 1, cls |-> ExcClass(o), cause |-> o]
                 IN  IF ~IsRequestException(e.cls)
                       THEN /\ raisedErr' = e
                            /\ mrResult' = "raised"
                            /\ pc' = "mr_exit"
                            /\ UNCHANGED <<errors, response>>
                       ELSE /\ errors' = Append(errors, e)
                            /\ IF IsLastAttempt(attempt, MAX_RETRIES)
                                 THEN /\ raisedErr' = ErrorToRaise(errors')
                                      /\ mrResult' = "raised"
                                      /\ pc' = "mr_exit"
                                 ELSE /\ pc' = "retry_sleep"
                                      /\ UNCHANGED <<raisedErr, mrResult>>
                            /\ UNCHANGED response
  /\ UNCHANGED <<MAX_RETRIES, now, op, attempt, opResult, arg, projectsAtCall,
                 waitVars, frameVars>>

\* time.sleep(settings.POLL_INTERVAL), then the next iteration.
RetrySleep ==
  /\ pc = "retry_sleep"
  /\ trace' = Append(trace, SleepEvent(RetrySleepEnd(now) - now))
  /\ now' = RetrySleepEnd(now)
  /\ attempt' = attempt + 1
  /\ pc' = "attempt"
  /\ UNCHANGED <<MAX_RETRIES, projects, op, errors, response, mrResult,
                 raisedErr, opResult, arg, applied, projectsAtCall, waitVars,
                 frameVars>>

\* range(MAX_RETRIES) is exhausted without return or raise: the function
\* falls off its end and returns None.
LoopExhausted ==
  /\ pc = "attempt"
  /\ attempt >= MAX_RETRIES
  /\ response' = NoOutcome
  /\ mrResult' = "returned"
  /\ pc' = "mr_exit"
  /\ UNCHANGED <<MAX_RETRIES, projects, now, op, attempt, trace, errors,
                 raisedErr, opResult, arg, applied, projectsAtCall, waitVars,
                 frameVars>>

(* ----------------------- endpoint operations -------------------------- *)

\* delete_project is the only operation with a try/except around
\* _make_request.
CatchesRequestException(o) == o = "delete_project"

AttributeError == [n |-> 0, cls |-> "AttributeError", cause |-> NoOutcome]

\* `d.get(key)` and `d.get(key, [])` on the decoded body, for a key whose
\* entry is a list: the entry, or the default when the body has no entry.
DictGet(hasEntry, default) == IF hasEntry THEN "list" ELSE default

\* What the operation makes of the decoded body of a returned response.
ReturnValue(o, hasEntry) ==
  CASE o = "get_projects" -> DictGet(hasEntry, "list")
    [] o = "get_vcs_roots" -> DictGet(hasEntry, "list")
    [] o = "get_build_configurations" -> DictGet(hasEntry, "None")
    [] OTHER -> "json"

\* The rest of the endpoint operation, once _make_request has ended.
OpReturn ==
  /\ pc = "mr_exit"
  /\ \E hasEntry \in BOOLEAN :
     opResult' =
       IF mrResult = "raised"
         THEN IF CatchesRequestException(op) /\ IsRequestException(raisedErr.cls)
                THEN [kind |-> "returned", value |-> "False", err |-> NoError]
                ELSE [kind |-> "raised", value |-> "none", err |-> raisedErr]
         ELSE IF op = "delete_project"
                THEN [kind |-> "returned", value |-> "True", err |-> NoError]
                ELSE IF response = NoOutcome
                       THEN [kind |-> "raised", value |-> "none",
                             err |-> AttributeError]
                       ELSE [kind |-> "returned",
                             value |-> ReturnValue(op, hasEntry),
                             err |-> NoError]
  /\ pc' = "op_done"
  /\ UNCHANGED <<MAX_RETRIES, projects, now, op, attempt, trace, errors,
                 response, mrResult, raisedErr, arg, applied, projectsAtCall,
                 waitVars, frameVars>>

(* ------------------ TestHelpers.wait_for_condition -------------------- *)

\* Variant: the deadline itself still counts as within the timeout.
WithinTimeout_Inclusive(t, start, T) == t - start <= T

\* `time.time() - start_time < timeout`
WithinTimeout(t, start, T) == t - start < T

\* `raise TimeoutError(error_message)`: builtin TimeoutError.
ConditionTimeoutType == "TimeoutError"

\* Default of the parameter error_message.
DefaultErrorMessage == "Condition not met within timeout"

\* Variant: each sleep lasts one time unit longer than the interval.
PollSleepEnd_Long(t, p) == t + p + 1

\* time.sleep(poll_interval)
PollSleepEnd(t, p) == t + p

\* condition_func(): the caller's predicate, evaluated `elapsed` after the
\* call started.
ConditionFunc(kind, w, elapsed) ==
  \/ kind = "always"
  \/ kind = "after" /\ elapsed > w

WaitForCondition(T, P, kind, w) ==
  /\ pc = "idle"
  /\ \E t \in StartTimes : now' = t /\ start_time' = t
  /\ timeout' = T
  /\ poll_interval' = P
  /\ predKind' = kind
  /\ W' = w
  /\ pc' = "w_check"
  /\ UNCHANGED <<MAX_RETRIES, projects, clientVars, evals, sleeps, waitResult,
                 lastPred, frameVars>>

\* The while condition; when it fails, TimeoutError is raised.
WaitCheck ==
  /\ pc = "w_check"
  /\ IF WithinTimeout(now, start_time, timeout)
       THEN pc' = "w_eval" /\ UNCHANGED waitResult
       ELSE pc' = "w_done" /\ waitResult' = ConditionTimeoutType
  /\ UNCHANGED <<MAX_RETRIES, projects, now, clientVars, timeout, poll_interval,
                 predKind, W, start_time, evals, sleeps, lastPred, frameVars>>

\* Variant: condition_func() never returns.
WaitEval_Hangs ==
  /\ pc = "w_eval"
  /\ predKind \notin HttpPredicates
  /\ FALSE
  /\ UNCHANGED vars

\* `if condition_func(): return True`, for a predicate that makes no call.
WaitEval ==
  /\ pc = "w_eval"
  /\ predKind \notin HttpPredicates
  /\ evals' = evals + 1
  /\ IF ConditionFunc(predKind, W, now - start_time)
       THEN pc' = "w_done" /\ waitResult' = "True"
       ELSE pc' = "w_sleep" /\ UNCHANGED waitResult
  /\ UNCHANGED <<MAX_RETRIES, projects, now, clientVars, timeout, poll_interval,
                 predKind, W, start_time, sleeps, lastPred, frameVars>>

\* The endpoint operation a server predicate calls inside its try block.
PredicateOp(kind) ==
  IF kind = "project_ready" THEN "get_project"
                            ELSE "get_build_configurations"

\* Variant: the predicate catches RequestException only.
PredicateCatches_RequestOnly(cls) == IsRequestException(cls)

\* The bare `except:` of the predicate catches every exception class.
PredicateCatches(cls) == TRUE

\* condition_func() for a server predicate: its try block starts with an
\* endpoint operation.
PredicateCall ==
  /\ pc = "w_eval"
  /\ predKind \in HttpPredicates
  /\ evals' = evals + 1
  /\ op' = PredicateOp(predKind)
  /\ arg' = IF predKind = "project_ready" THEN "TestProj_1" ELSE "none"
  /\ projectsAtCall' = projects
  /\ caller' = "predicate"
  /\ pc' = "attempt"
  /\ UNCHANGED <<MAX_RETRIES, projects, gitVars,
                 cleanupVars, scenarioVars,
                 now, attempt, trace, errors, response,
                 mrResult, raisedErr, opResult, applied, timeout,
                 poll_interval, predKind, W, start_time, sleeps, waitResult,
                 lastPred, bwVars>>

\* The rest of the predicate once the operation has ended, and the `if` of
\* wait_for_condition on its value: a raised operation or an answer without
\* the field read (len(None), .get on a non-mapping) raises inside the try
\* block; the except clause turns it into False.
PredicateReturn ==
  /\ pc = "op_done"
  /\ caller = "predicate"
  /\ \E body \in Bodies :
       /\ (opResult.kind = "returned" /\ op = "get_build_configurations") =>
            (body = "missing" <=> opResult.value = "None")
       /\ LET failure == IF opResult.kind = "raised" THEN opResult.err.cls
                         ELSE IF body = "missing" THEN "TypeError"
                         ELSE "none"
              value == IF failure # "none" THEN "False"
                       ELSE IF body = "match" THEN "True" ELSE "False"
          IN  /\ lastPred' = [failure |-> failure, value |-> value]
              /\ IF failure # "none" /\ ~PredicateCatches(failure)
                   THEN pc' = "w_done" /\ waitResult' = failure
                   ELSE IF value = "True"
                          THEN pc' = "w_done" /\ waitResult' = "True"
                          ELSE pc' = "w_sleep" /\ UNCHANGED waitResult
  /\ caller' = "none"
  /\ op' = "none" /\ attempt' = 0 /\ trace' = <<>> /\ errors' = <<>>
  /\ response' = NoOutcome /\ mrResult' = "none" /\ raisedErr' = NoError
  /\ opResult' = NoOpResult
  /\ arg' = "none" /\ applied' = 0 /\ projectsAtCall' = {}
  /\ UNCHANGED <<MAX_RETRIES, projects, gitVars,
                 cleanupVars, scenarioVars,
                 now, timeout, poll_interval, predKind,
                 W, start_time, evals, sleeps, bwVars>>

\* time.sleep(poll_interval)
WaitSleep ==
  /\ pc = "w_sleep"
  /\ now' = PollSleepEnd(now, poll_interval)
  /\ sleeps' = sleeps + 1
  /\ pc' = "w_check"
  /\ UNCHANGED <<MAX_RETRIES, projects, clientVars, timeout, poll_interval,
                 predKind, W, start_time, evals, waitResult, lastPred,
                 frameVars>>

(* ------------- TeamCityClient.wait_for_build_completion --------------- *)

\* Variant: the build wait has an exception type of its own.
BuildTimeoutType_Own == "BuildTimeoutError"

\* The exception raised when the loop ends: builtin TimeoutError.
BuildTimeoutType == "TimeoutError"

\* f"Build {build_id} did not complete within {timeout} seconds"
BuildTimeoutMessage == "Build {build_id} did not complete within {timeout} seconds"

\* Variant: only a canceled build ends the wait.
IsTerminal_CanceledOnly(st) == st = "canceled"

\* `if state in ['finished', 'canceled']`
IsTerminal(st) == st \in {"finished", "canceled"}

\* Variant: a running build is polled again after one time unit.
BuildPollDelay_RunningFast(st) ==
  IF st = "running" THEN 1 ELSE POLL_INTERVAL

\* The sleep taken after a non-terminal poll: the `elif state == 'running'`
\* branch and the `else` branch both sleep settings.POLL_INTERVAL.
BuildPollDelay(st) ==
  IF st = "running" THEN POLL_INTERVAL ELSE POLL_INTERVAL

WaitForBuildCompletion(T) ==
  /\ pc = "idle"
  /\ bwStart' = now
  /\ bwTimeout' = T
  /\ pc' = "bw_check"
  /\ UNCHANGED <<MAX_RETRIES, projects, gitVars,
                 cleanupVars, scenarioVars, now,
                 clientVars, waitVars, caller, bwPolls, polled,
                 bwSleeps, bwResult>>

\* The while condition: within the timeout, call get_build_status;
\* otherwise raise TimeoutError.
BuildWaitCheck ==
  /\ pc = "bw_check"
  /\ IF now - bwStart < bwTimeout
       THEN /\ op' = "get_build_status"
            /\ caller' = "build_wait"
            /\ projectsAtCall' = projects
            /\ pc' = "attempt"
            /\ bwPolls' = bwPolls + 1
            /\ UNCHANGED bwResult
       ELSE /\ bwResult' = [kind |-> "raised", payload |-> "none",
                            err |-> [n |-> 0, cls |-> BuildTimeoutType,
                                     cause |-> NoOutcome],
                            msg |-> BuildTimeoutMessage]
            /\ pc' = "bw_done"
            /\ UNCHANGED <<op, caller, bwPolls, projectsAtCall>>
  /\ UNCHANGED <<MAX_RETRIES, projects, gitVars,
                 cleanupVars, scenarioVars,
                 now, attempt, trace, errors, response,
                 mrResult, raisedErr, opResult, arg, applied, waitVars,
                 bwTimeout, bwStart, polled, bwSleeps>>

\* Variant: the wait loop catches RequestException and polls on.
BuildWaitCatches_RequestException(cls) == IsRequestException(cls)

\* The while loop has no try/except around get_build_status.
BuildWaitCatches(cls) == FALSE

\* get_build_status has ended.  If it raised, the exception leaves
\* wait_for_build_completion; otherwise the state of the payload decides
\* between returning the payload and sleeping.
BuildWaitPollReturn ==
  /\ pc = "op_done"
  /\ caller = "build_wait"
  /\ IF opResult.kind = "raised" /\ BuildWaitCatches(opResult.err.cls)
       THEN /\ polled' = Append(polled, "absent")
            /\ pc' = "bw_sleep"
            /\ UNCHANGED bwResult
       ELSE
     IF opResult.kind = "raised"
       THEN /\ bwResult' = [kind |-> "raised", payload |-> "none",
                            err |-> opResult.err, msg |-> "none"]
            /\ pc' = "bw_done"
            /\ UNCHANGED polled
       ELSE \E st \in BuildStates :
              /\ polled' = Append(polled, st)
              /\ IF IsTerminal(st)
                   THEN /\ bwResult' = [kind |-> "returned", payload |-> st,
                                        err |-> NoError, msg |-> "none"]
                        /\ pc' = "bw_done"
                   ELSE /\ pc' = "bw_sleep"
                        /\ UNCHANGED bwResult
  /\ caller' = "none"
  /\ op' = "none" /\ attempt' = 0 /\ trace' = <<>> /\ errors' = <<>>
  /\ response' = NoOutcome /\ mrResult' = "none" /\ raisedErr' = NoError
  /\ opResult' = NoOpResult
  /\ arg' = "none" /\ applied' = 0 /\ projectsAtCall' = {}
  /\ UNCHANGED <<MAX_RETRIES, projects, gitVars,
                 cleanupVars, scenarioVars,
                 now, waitVars, bwTimeout, bwStart, bwPolls,
                 bwSleeps>>

\* time.sleep(settings.POLL_INTERVAL) after a non-terminal state.
BuildWaitSleep ==
  /\ pc = "bw_sleep"
  /\ now' = now + BuildPollDelay(polled[Len(polled)])
  /\ bwSleeps' = bwSleeps + 1
  /\ pc' = "bw_check"
  /\ UNCHANGED <<MAX_RETRIES, projects, gitVars,
                 cleanupVars, scenarioVars,
                 clientVars, waitVars, caller, bwTimeout, bwStart,
                 bwPolls, polled, bwResult>>

(* ------------------------- scripts/cleanup.py ------------------------- *)

\* `p['id'].startswith('Test')`
IsTestProject(id) == id \in TestIds

\* sys.exit(0) if cleanup_test_projects() returned True, else sys.exit(1).
ExitCodeOf(ok) == IF ok THEN 0 ELSE 1

\* cleanup_test_projects up to its call of client.get_projects().
CleanupTestProjects ==
  /\ pc = "idle"
  /\ op' = "get_projects"
  /\ projectsAtCall' = projects
  /\ caller' = "cleanup"
  /\ pc' = "attempt"
  /\ UNCHANGED <<MAX_RETRIES, projects, gitVars,
                 now, attempt, trace, errors, response,
                 mrResult, raisedErr, opResult, arg, applied, waitVars,
                 bwVars, cleanupVars, scenarioVars>>

\* get_projects has ended: an exception reaches the outer except clause,
\* which returns False; otherwise the listed projects are filtered.
CleanupListReturn ==
  /\ pc = "op_done"
  /\ caller = "cleanup"
  /\ op = "get_projects"
  /\ IF opResult.kind = "raised"
       THEN /\ cuListed' = "failed"
            /\ exitCode' = ExitCodeOf(FALSE)
            /\ pc' = "cu_done"
            /\ caller' = "none"
            /\ UNCHANGED cuTodo
       ELSE /\ cuListed' = "ok"
            /\ cuTodo' = {id \in projects : IsTestProject(id)}
            /\ pc' = "cu_loop"
            /\ UNCHANGED <<exitCode, caller>>
  /\ op' = "none" /\ attempt' = 0 /\ trace' = <<>> /\ errors' = <<>>
  /\ response' = NoOutcome /\ mrResult' = "none" /\ raisedErr' = NoError
  /\ opResult' = NoOpResult
  /\ arg' = "none" /\ applied' = 0 /\ projectsAtCall' = {}
  /\ UNCHANGED <<MAX_RETRIES, projects, gitVars,
                 now, waitVars, bwVars, cuFailed,
                 scenarioVars>>

\* `for project in test_projects`: call delete_project for the next one;
\* after the last one `return True`.
CleanupLoop ==
  /\ pc = "cu_loop"
  /\ IF cuTodo = {}
       THEN /\ exitCode' = ExitCodeOf(TRUE)
            /\ pc' = "cu_done"
            /\ caller' = "none"
            /\ UNCHANGED <<op, arg, projectsAtCall, cuTodo>>
       ELSE /\ \E id \in cuTodo :
                 /\ arg' = id
                 /\ cuTodo' = cuTodo \ {id}
            /\ op' = "delete_project"
            /\ projectsAtCall' = projects
            /\ pc' = "attempt"
            /\ UNCHANGED <<exitCode, caller>>
  /\ UNCHANGED <<MAX_RETRIES, projects, gitVars,
                 now, attempt, trace, errors, response,
                 mrResult, raisedErr, opResult, applied, waitVars, bwVars,
                 cuListed, cuFailed, scenarioVars>>

\* delete_project has ended: its return value is not looked at, and an
\* exception is printed by the inner except clause; the loop goes on.
CleanupDeleteReturn ==
  /\ pc = "op_done"
  /\ caller = "cleanup"
  /\ op = "delete_project"
  /\ cuFailed' = IF opResult.kind = "raised" \/ opResult.value = "False"
                   THEN cuFailed \cup {arg}
                   ELSE cuFailed
  /\ pc' = "cu_loop"
  /\ op' = "none" /\ attempt' = 0 /\ trace' = <<>> /\ errors' = <<>>
  /\ response' = NoOutcome /\ mrResult' = "none" /\ raisedErr' = NoError
  /\ opResult' = NoOpResult
  /\ arg' = "none" /\ applied' = 0 /\ projectsAtCall' = {}
  /\ UNCHANGED <<MAX_RETRIES, projects, gitVars,
                 now, waitVars, caller, bwVars,
                 cuListed, cuTodo, exitCode, scenarioVars>>

(* -------------------------- scenario tests ---------------------------- *)

\* The scenario starts with `if not settings.GIT_REPO_URL: pytest.skip(..)`.
HasSkipGuard(s) == s # "test_project_usability_after_import"

\* The scenario waits for project_ready between the two creations.
WaitsForProject(s) == s = "test_project_usability_after_import"

\* `not settings.GIT_REPO_URL`: the empty string is false.
NotConfigured(url) == url = ""

\* A scenario up to its first request: skipped by its guard, or
\* create_project is called.
RunScenario(s, url) ==
  /\ pc = "idle"
  /\ scenario' = s
  /\ gitUrl' = url
  /\ IF HasSkipGuard(s) /\ NotConfigured(url)
       THEN /\ scOutcome' = "skipped"
            /\ pc' = "sc_done"
            /\ UNCHANGED <<op, arg, projectsAtCall, caller>>
       ELSE /\ op' = "create_project"
            /\ arg' = "TestProj_1"
            /\ projectsAtCall' = projects
            /\ caller' = "scenario"
            /\ pc' = "attempt"
            /\ UNCHANGED scOutcome
  /\ UNCHANGED <<MAX_RETRIES, projects, gitVars,
                 now, attempt, trace, errors, response,
                 mrResult, raisedErr, opResult, applied, waitVars, bwVars,
                 cleanupVars, vcsUrl>>

\* An operation of the scenario has ended. An exception fails the
\* scenario. After create_project (and the wait for project_ready where the
\* scenario has one) vcs_data is built from settings.GIT_REPO_URL and
\* create_vcs_root is called; after create_vcs_root the scenario goes on
\* with steps that send no URL.
ScenarioOpReturn ==
  /\ pc = "op_done"
  /\ caller = "scenario"
  /\ \E ready \in BOOLEAN :
       IF \/ opResult.kind = "raised"
          \/ op = "create_project" /\ WaitsForProject(scenario) /\ ~ready
         THEN /\ scOutcome' = "failed"
              /\ pc' = "sc_done"
              /\ caller' = "none"
              /\ op' = "none"
              /\ UNCHANGED vcsUrl
         ELSE IF op = "create_project"
           THEN /\ vcsUrl' = gitUrl
                /\ op' = "create_vcs_root"
                /\ pc' = "attempt"
                /\ UNCHANGED <<scOutcome, caller>>
           ELSE /\ scOutcome' = "vcs_root_created"
                /\ pc' = "sc_done"
                /\ caller' = "none"
                /\ op' = "none"
                /\ UNCHANGED vcsUrl
  /\ attempt' = 0 /\ trace' = <<>> /\ errors' = <<>>
  /\ response' = NoOutcome /\ mrResult' = "none" /\ raisedErr' = NoError
  /\ opResult' = NoOpResult
  /\ arg' = "none" /\ applied' = 0 /\ projectsAtCall' = projects
  /\ UNCHANGED <<MAX_RETRIES, projects, gitVars,
                 now, waitVars, bwVars, cleanupVars,
                 scenario, gitUrl>>

(* --------------------------- GitOperations ---------------------------- *)

\* `with GitOperations() as git_ops`: the instance is made and entered.
GitEnter ==
  /\ pc = "idle"
  /\ pc' = "git"
  /\ UNCHANGED <<MAX_RETRIES, projects, now, clientVars, waitVars, frameVars>>

\* clone_repo(target_dir): without a target a new temporary directory is
\* made and stored in self.temp_dir; clone_from then succeeds (self.repo is
\* set) or raises GitCommandError, which is re-raised to the caller.
CloneRepo(target, cloned) ==
  /\ pc = "git"
  /\ IF target = "none"
       THEN /\ gitMade < MaxClones
            /\ gitMade' = gitMade + 1
            /\ gitDirs' = gitDirs \cup {gitMade + 1}
            /\ temp_dir' = gitMade + 1
            /\ repo' = IF cloned THEN gitMade + 1 ELSE repo
       ELSE /\ repo' = IF cloned THEN -1 ELSE repo
            /\ UNCHANGED <<gitMade, gitDirs, temp_dir>>
  /\ UNCHANGED <<pc, MAX_RETRIES, projects, now, clientVars, waitVars, caller,
                 bwVars, cleanupVars, scenarioVars, gitEnd>>

\* cleanup(): `if self.temp_dir and os.path.exists(self.temp_dir):
\* shutil.rmtree(self.temp_dir)`; the directories removed.
RemovedByCleanup(t, dirs) == IF t # 0 /\ t \in dirs THEN {t} ELSE {}

\* cleanup() called directly, or by __exit__ when the with-block is left
\* normally or by an exception.
GitCleanup(how) ==
  /\ pc = "git"
  /\ gitDirs' = gitDirs \ RemovedByCleanup(temp_dir, gitDirs)
  /\ gitEnd' = how
  /\ pc' = "git_done"
  /\ UNCHANGED <<MAX_RETRIES, projects, now, clientVars, waitVars, caller,
                 bwVars, cleanupVars, scenarioVars, temp_dir, repo, gitMade>>

(* --------------------------- the scenario ----------------------------- *)

\* The call has returned or raised; its frame is discarded.
Finish ==
  /\ pc \in {"op_done", "w_done", "bw_done", "cu_done", "sc_done",
             "git_done"}
  /\ caller = "none"
  /\ pc' = "idle"
  /\ now' = 0
  /\ op' = "none" /\ attempt' = 0 /\ trace' = <<>> /\ errors' = <<>>
  /\ response' = NoOutcome /\ mrResult' = "none" /\ raisedErr' = NoError
  /\ opResult' = NoOpResult
  /\ arg' = "none" /\ applied' = 0 /\ projectsAtCall' = {}
  /\ timeout' = 0 /\ poll_interval' = 0 /\ predKind' = "none" /\ W' = 0
  /\ start_time' = 0 /\ evals' = 0 /\ sleeps' = 0 /\ waitResult' = "none"
  /\ lastPred' = NoPred
  /\ bwTimeout' = 0 /\ bwStart' = 0 /\ bwPolls' = 0 /\ polled' = <<>>
  /\ bwSleeps' = 0
  /\ bwResult' = NoBuildResult
  /\ cuListed' = "none" /\ cuTodo' = {} /\ cuFailed' = {} /\ exitCode' = -1
  /\ scenario' = "none" /\ gitUrl' = "unset" /\ vcsUrl' = "unset"
  /\ scOutcome' = "none"
  /\ temp_dir' = 0 /\ repo' = 0 /\ gitDirs' = {} /\ gitMade' = 0
  /\ gitEnd' = "none"
  /\ UNCHANGED <<MAX_RETRIES, projects, caller>>

Next ==
  \/ \E o \in Operations : Call(o)
  \/ Attempt
  \/ RetrySleep
  \/ LoopExhausted
  \/ OpReturn
  \/ \E T \in 0..MaxT, P \in 1..MaxP, w \in 0..MaxW : WaitForCondition(T, P, "after", w)
  \/ \E T \in 0..MaxT, P \in 1..MaxP, k \in {"always", "never"} : WaitForCondition(T, P, k, 0)
  \/ WaitCheck
  \/ \E T \in 0..MaxHT, P \in 1..MaxHP, k \in HttpPredicates :
       WaitForCondition(T, P, k, 0)
  \/ WaitEval
  \/ PredicateCall
  \/ PredicateReturn
  \/ WaitSleep
  \/ \E T \in 0..MaxBT : WaitForBuildCompletion(T)
  \/ BuildWaitCheck
  \/ BuildWaitPollReturn
  \/ BuildWaitSleep
  \/ CleanupTestProjects
  \/ CleanupListReturn
  \/ CleanupLoop
  \/ CleanupDeleteReturn
  \/ \E s \in Scenarios, url \in RepoUrls : RunScenario(s, url)
  \/ ScenarioOpReturn
  \/ GitEnter
  \/ \E target \in {"none", "given"}, cloned \in BOOLEAN :
       CloneRepo(target, cloned)
  \/ \E how \in {"cleanup", "exit", "exit_exception"} : GitCleanup(how)
  \/ Finish

Spec == Init /\ [][Next]_vars

\* The steps of a call that has started. The program is one sequential flow
\* of control: once a call has started, the interpreter goes on executing
\* it, and each step (a request attempt, a sleep, a predicate evaluation)
\* ends.
Step ==
  \/ Attempt
  \/ RetrySleep
  \/ LoopExhausted
  \/ OpReturn
  \/ WaitCheck
  \/ WaitEval
  \/ PredicateCall
  \/ PredicateReturn
  \/ WaitSleep
  \/ BuildWaitCheck
  \/ BuildWaitPollReturn
  \/ BuildWaitSleep

\* The waits alone, for the check of their termination: the two waits and
\* the calls they make, with MAX_RETRIES up to MaxLR and a server on which
\* only the project the tests do not touch exists.
WaitInit ==
  /\ Init
  /\ MAX_RETRIES <= MaxLR
  /\ projects = {"Prod_1"}

WaitNext ==
  \/ \E T \in 0..MaxT, P \in 1..MaxP, w \in 0..MaxW :
       WaitForCondition(T, P, "after", w)
  \/ \E T \in 0..MaxT, P \in 1..MaxP, k \in {"always", "never"} :
       WaitForCondition(T, P, k, 0)
  \/ \E T \in 0..MaxHT, P \in 1..MaxHP, k \in HttpPredicates :
       WaitForCondition(T, P, k, 0)
  \/ \E T \in 0..MaxBT : WaitForBuildCompletion(T)
  \/ Attempt
  \/ RetrySleep
  \/ LoopExhausted
  \/ OpReturn
  \/ WaitCheck
  \/ WaitEval
  \/ PredicateCall
  \/ PredicateReturn
  \/ WaitSleep
  \/ BuildWaitCheck
  \/ BuildWaitPollReturn
  \/ BuildWaitSleep
  \/ Finish

WaitSpec == WaitInit /\ [][WaitNext]_vars /\ WF_vars(Step)

TypeOK ==
  /\ pc \in {"idle", "attempt", "retry_sleep", "mr_exit", "op_done",
             "w_check", "w_eval", "w_sleep", "w_done",
             "bw_check", "bw_sleep", "bw_done",
             "cu_loop", "cu_done", "sc_done", "git", "git_done"}
  /\ temp_dir \in 0..MaxClones /\ repo \in -1..MaxClones
  /\ gitDirs \subseteq 1..MaxClones /\ gitMade \in 0..MaxClones
  /\ caller \in {"none", "build_wait", "predicate", "cleanup", "scenario"}
  /\ exitCode \in {-1, 0, 1}
  /\ cuTodo \subseteq TestIds /\ cuFailed \subseteq TestIds
  /\ scenario \in Scenarios \cup {"none"}
  /\ gitUrl \in RepoUrls \cup {"unset"}
  /\ vcsUrl \in RepoUrls \cup {"unset"}
  /\ scOutcome \in {"none", "skipped", "failed", "vcs_root_created"}
  /\ projects \subseteq ProjectIds
  /\ arg \in ProjectIds \cup {"none"}
  /\ applied \in 0..MaxR
  /\ MAX_RETRIES \in 0..MaxR
  /\ now \in Nat
  /\ op \in Operations \cup {"none"}
  /\ attempt \in 0..MaxR
  /\ mrResult \in {"none", "returned", "raised"}
  /\ waitResult \in {"none", "True", "TimeoutError"}
  /\ lastPred.value \in {"none", "True", "False"}
  /\ evals \in Nat /\ sleeps \in Nat

(* ===================== properties of _make_request ==================== *)

\* The requests this call has sent, in order.
Requests == SelectSeq(trace, LAMBDA ev : ev.kind = "req")

\* The attempt produced a response with a success status.
Is2xx(o) == o.type = "Response" /\ o.status >= 200 /\ o.status <= 299

\* The attempt failed: a transport fault or an HTTP error status.
IsFault(o) ==
  \/ o.type \in TransportFaults
  \/ o.type = "Response" /\ o.status >= 400 /\ o.status <= 599

\* C1: for every retry budget R >= 1 and every k in 1..R, when the first
\* k-1 attempts fail and attempt k succeeds (2xx), the call returns that
\* attempt's response without raising and exactly k requests were sent:
\* a successful request is always the last one sent.
C1_SuccessReturnsAtOnce ==
  MAX_RETRIES >= 1 =>
    \A k \in 1..Len(Requests) :
      Is2xx(Requests[k].outcome) =>
        /\ k = Len(Requests)
        /\ k <= MAX_RETRIES
        /\ \A i \in 1..(k - 1) : IsFault(Requests[i].outcome)
        /\ pc \in {"mr_exit", "op_done"}
        /\ mrResult = "returned"
        /\ response = Requests[k].outcome
        /\ raisedErr = NoError

C1_Witness ==
  /\ MAX_RETRIES >= 2
  /\ mrResult = "returned"
  /\ Len(Requests) = MAX_RETRIES
  /\ Is2xx(Requests[MAX_RETRIES].outcome)
  /\ \A i \in 1..(MAX_RETRIES - 1) : IsFault(Requests[i].outcome)

\* C2: for every retry budget R >= 1, a call whose every attempt fails
\* raises after exactly R requests: never more than R requests are sent,
\* a raise happens only once R requests have failed, and R failed requests
\* always end in a raise.
C2_RaisesAfterExactlyR ==
  MAX_RETRIES >= 1 =>
    /\ Len(Requests) <= MAX_RETRIES
    /\ mrResult = "raised" =>
         /\ Len(Requests) = MAX_RETRIES
         /\ \A i \in 1..Len(Requests) : IsFault(Requests[i].outcome)
    /\ ( /\ Len(Requests) = MAX_RETRIES
         /\ \A i \in 1..Len(Requests) : IsFault(Requests[i].outcome) )
         => /\ mrResult = "raised"
            /\ pc \in {"mr_exit", "op_done"}

C2_Witness ==
  /\ MAX_RETRIES >= 2
  /\ mrResult = "raised"
  /\ Len(Requests) = MAX_RETRIES
  /\ \A i \in 1..Len(Requests) : IsFault(Requests[i].outcome)

\* C3: within one call, requests and sleeps alternate: every failed request
\* that is not the last of the call is followed by exactly one sleep of the
\* configured delay POLL_INTERVAL, so consecutive requests are at least that
\* far apart, and no sleep follows the final failed request before the
\* failure is raised.
C3_OneDelayBetweenAttempts ==
  /\ \A i \in 1..Len(trace) :
       /\ trace[i].kind = "req" <=> i % 2 = 1
       /\ trace[i].kind = "sleep" =>
            /\ trace[i].d = POLL_INTERVAL
            /\ IsFault(trace[i - 1].outcome)
       /\ (trace[i].kind = "req" /\ i >= 3) =>
            trace[i].at - trace[i - 2].at >= POLL_INTERVAL
  /\ mrResult = "raised" =>
       /\ trace[Len(trace)].kind = "req"
       /\ now = trace[Len(trace)].at
       /\ Len(trace) = 2 * MAX_RETRIES - 1

C3_Witness ==
  /\ MAX_RETRIES >= 3
  /\ mrResult = "raised"
  /\ Len(trace) = 2 * MAX_RETRIES - 1
  /\ trace[2].kind = "sleep"

\* C4: a transport fault and an HTTP error status (4xx or 5xx) are handled
\* identically: each consumes one attempt of the budget, is re-raised
\* exactly when it occurs on attempt R, and is otherwise followed by one
\* sleep of POLL_INTERVAL and the next attempt.
C4_FaultsHandledAlike ==
  [][ /\ (pc = "attempt" /\ Len(trace') = Len(trace) + 1
            /\ IsFault(trace'[Len(trace')].outcome)) =>
          /\ Len(errors') = Len(errors) + 1
          /\ errors'[Len(errors')].cause = trace'[Len(trace')].outcome
          /\ IF Len(Requests') = MAX_RETRIES
               THEN /\ mrResult' = "raised"
                    /\ raisedErr'.cause = trace'[Len(trace')].outcome
               ELSE /\ mrResult' = "none"
                    /\ pc' = "retry_sleep"
      /\ (pc = "retry_sleep" /\ pc' # pc) =>
          /\ pc' = "attempt"
          /\ now' = now + POLL_INTERVAL
          /\ attempt' = attempt + 1
    ]_vars

C4_Witness ==
  /\ mrResult = "raised"
  /\ \E i, j \in 1..Len(Requests) :
       /\ Requests[i].outcome.type \in TransportFaults
       /\ Requests[j].outcome.type = "Response"
       /\ Requests[j].outcome.status = 404
       /\ i < j

\* C5: when all R attempts fail, the exception raised is the one of the
\* R-th attempt, unmodified, and none of the exceptions of attempts
\* 1..R-1.
C5_LastErrorRaised ==
  (MAX_RETRIES >= 1 /\ mrResult = "raised") =>
    /\ raisedErr.n = MAX_RETRIES
    /\ raisedErr.cause = Requests[MAX_RETRIES].outcome
    /\ raisedErr.cause.type \in TransportFaults => raisedErr.cls = raisedErr.cause.type
    /\ raisedErr.cause.type = "Response" => raisedErr.cls = "HTTPError"
    /\ Len(errors) = MAX_RETRIES
    /\ \A i \in 1..(MAX_RETRIES - 1) : raisedErr # errors[i]

C5_Witness ==
  /\ MAX_RETRIES >= 2
  /\ mrResult = "raised"
  /\ Requests[1].outcome # Requests[MAX_RETRIES].outcome

\* C6: every endpoint operation adds no failure handling of its own: when
\* all R attempts of its request fail, the failure reaches the operation's
\* caller and is neither swallowed nor turned into a normal return value.
C6_OperationsPropagateFailure ==
  (pc = "op_done" /\ mrResult = "raised") =>
    /\ opResult.kind = "raised"
    /\ opResult.err = raisedErr

(* ==================== properties of wait_for_condition ================ *)

\* Time spent inside the call so far.
Elapsed == now - start_time

\* Elapsed time of the first evaluation made strictly after W: evaluations
\* happen at 0, P, 2P, ...
FirstPollAfter == poll_interval * ((W \div poll_interval) + 1)

\* C7: for every timeout T, T = 0 included, the predicate is evaluated at
\* least once before the call returns or raises TimeoutError.
C7_EvaluatedAtLeastOnce ==
  pc = "w_done" => evals >= 1

\* C8: with an always-true predicate the call returns True immediately,
\* with zero sleeps and no TimeoutError, for every timeout and interval.
C8_AlwaysTrueReturnsAtOnce ==
  (pc = "w_done" /\ predKind = "always") =>
    /\ waitResult = "True"
    /\ sleeps = 0
    /\ Elapsed = 0

\* C9 as stated: for a predicate true strictly after W and T > 0, the call
\* returns True iff W < T and raises TimeoutError iff W >= T.
C9_SucceedsIffWBeforeT ==
  (pc = "w_done" /\ predKind = "after" /\ timeout > 0) =>
    /\ waitResult = "True" <=> W < timeout
    /\ waitResult = "TimeoutError" <=> W >= timeout

\* C9 amended: for a predicate true strictly after W and T > 0, the call
\* returns True iff the first evaluation instant after W, which is
\* P * (floor(W / P) + 1), is before T, and raises TimeoutError otherwise;
\* hence W >= T always ends in TimeoutError, and a success implies W < T.
C9_SucceedsIffPollBeforeT ==
  (pc = "w_done" /\ predKind = "after" /\ timeout > 0) =>
    /\ waitResult = "True" <=> FirstPollAfter < timeout
    /\ waitResult = "TimeoutError" <=> FirstPollAfter >= timeout
    /\ W >= timeout => waitResult = "TimeoutError"
    /\ waitResult = "True" => W < timeout

C9_Witness ==
  /\ pc = "w_done" /\ predKind = "after" /\ timeout > 0
  /\ W < timeout
  /\ waitResult = "TimeoutError"
  /\ evals >= 2

\* C10 as stated: the time spent in the call is in [W, W+P) when it
\* returns True and in [T, T+P) when it raises TimeoutError.
C10_ElapsedHalfOpen ==
  (pc = "w_done" /\ predKind = "after") =>
    /\ waitResult = "True" => (W <= Elapsed /\ Elapsed < W + poll_interval)
    /\ waitResult = "TimeoutError" =>
         (timeout <= Elapsed /\ Elapsed < timeout + poll_interval)

\* C10 amended: the time spent in the call is in (W, W+P] when it returns
\* True (the predicate is still false at W, and the next evaluation may be a
\* full interval later), and in [T, T+P) when it raises TimeoutError.
C10_ElapsedBounds ==
  (pc = "w_done" /\ predKind = "after") =>
    /\ waitResult = "True" => (W < Elapsed /\ Elapsed <= W + poll_interval)
    /\ waitResult = "TimeoutError" =>
         (timeout <= Elapsed /\ Elapsed < timeout + poll_interval)

C10_Witness ==
  /\ pc = "w_done" /\ predKind = "after"
  /\ waitResult = "True"
  /\ Elapsed = W + poll_interval
  /\ sleeps >= 2

\* ceil(a / b) for a >= 0, b > 0.
CeilDiv(a, b) == (a + b - 1) \div b

C12_ReturnsAtTerminalState ==
  /\ \A i \in 1..Len(polled) :
       polled[i] \in {"finished", "canceled"} =>
         /\ i = Len(polled)
         /\ bwPolls = i
         /\ pc = "bw_done"
         /\ bwResult.kind = "returned"
         /\ bwResult.payload = polled[i]
  /\ polled = <<"queued", "running", "finished">> =>
       /\ bwPolls = 3
       /\ bwSleeps = 2
       /\ bwResult.kind = "returned"
       /\ bwResult.payload = "finished"

C12_Witness ==
  /\ pc = "bw_done"
  /\ polled = <<"queued", "running", "finished">>
  /\ bwResult.kind = "returned"

\* C13: the wait returns only a payload whose state is finished or
\* canceled; after a poll returning any other state it sleeps exactly one
\* POLL_INTERVAL, the same for running as for every other non-terminal
\* state, and goes back to the loop, which polls again while the timeout has
\* not elapsed.
C13_UniformPollSchedule ==
  [][ /\ bwResult'.kind = "returned" =>
           bwResult'.payload \in {"finished", "canceled"}
      /\ (Len(polled') = Len(polled) + 1
            /\ polled'[Len(polled')] \notin {"finished", "canceled"}) =>
           /\ pc' = "bw_sleep"
           /\ bwResult' = bwResult
      /\ (pc = "bw_sleep" /\ pc' # pc) =>
           /\ now' = now + POLL_INTERVAL
           /\ bwSleeps' = bwSleeps + 1
           /\ pc' = "bw_check"
      /\ (pc = "bw_check" /\ pc' # pc /\ now - bwStart < bwTimeout) =>
           /\ bwPolls' = bwPolls + 1
           /\ op' = "get_build_status"
      /\ bwSleeps' <= Len(polled')
    ]_vars

C13_Witness ==
  /\ pc = "attempt" /\ caller = "build_wait"
  /\ bwPolls = 3
  /\ polled = <<"running", "absent">>
  /\ now - bwStart = 2 * POLL_INTERVAL

\* C14 as stated: the timeout failure of wait_for_build_completion has a
\* type distinct from the one wait_for_condition raises on its timeout.
C14_TimeoutTypesDistinct ==
  (pc = "bw_done" /\ bwResult.kind = "raised" /\ bwResult.msg # "none") =>
    bwResult.err.cls # ConditionTimeoutType

\* C14 amended: the timeout failure of wait_for_build_completion has the
\* same type as the one of wait_for_condition (builtin TimeoutError); the
\* two differ only in their message, which for the build wait names the
\* build and the timeout.
C14_TimeoutSameTypeOtherMessage ==
  (pc = "bw_done" /\ bwResult.kind = "raised" /\ bwResult.msg # "none") =>
    /\ bwResult.err.cls = ConditionTimeoutType
    /\ bwResult.msg = BuildTimeoutMessage
    /\ bwResult.msg # DefaultErrorMessage
    /\ now - bwStart >= bwTimeout

C14_Witness ==
  /\ pc = "bw_done" /\ bwResult.kind = "raised"
  /\ bwResult.msg = BuildTimeoutMessage
  /\ Len(polled) >= 2

(* ================= properties involving the remote server ============= *)

\* C15: create_project called with an id that already exists on a server
\* that rejects such a creation is rejected on its first attempt, retried
\* to exhaustion, and raises after R attempts; it never returns a success
\* result and the server's projects are unchanged by the call.
C15_DuplicateCreateRaises ==
  (op = "create_project" /\ arg \in projectsAtCall) =>
    /\ projects = projectsAtCall
    /\ applied = 0
    /\ opResult.kind # "returned"
    /\ \A i \in 1..Len(Requests) : IsFault(Requests[i].outcome)
    /\ MAX_RETRIES >= 1 => mrResult # "returned"
    /\ pc = "op_done" =>
         /\ opResult.kind = "raised"
         /\ Len(Requests) = MAX_RETRIES
         /\ MAX_RETRIES >= 1 => opResult.err = errors[MAX_RETRIES]

C15_Witness ==
  /\ op = "create_project" /\ arg \in projectsAtCall
  /\ pc = "op_done"
  /\ MAX_RETRIES >= 2
  /\ Requests[1].outcome.type = "Response"
  /\ Requests[1].outcome.status = 404

\* C16: when a non-idempotent request (create_project, create_vcs_root,
\* trigger_build) is applied by the server but its answer is lost, the
\* retry loop sends the same request again unless that was attempt R; so
\* one call can be applied more than once, and at most R times.
C16_LostAnswerIsResent ==
  [][ /\ (pc = "attempt"
            /\ op \in {"create_project", "create_vcs_root", "trigger_build"}
            /\ applied' = applied + 1
            /\ trace'[Len(trace')].outcome.type \in TransportFaults
            /\ Len(Requests') < MAX_RETRIES) =>
           /\ pc' = "retry_sleep"
           /\ op' = op /\ arg' = arg
      /\ (pc = "retry_sleep" /\ pc' # pc) =>
           /\ pc' = "attempt"
           /\ op' = op /\ arg' = arg
           /\ attempt' < MAX_RETRIES
      /\ applied' <= Len(Requests')
      /\ Len(Requests') <= MAX_RETRIES
    ]_vars

C16_Witness ==
  /\ op = "trigger_build"
  /\ MAX_RETRIES >= 2
  /\ applied = MAX_RETRIES
  /\ mrResult = "raised"

\* C17: every response that _make_request returns to its caller has a 2xx
\* status; a response with any other status is never returned as a result
\* but counted as a failed attempt.
C17_ReturnedResponseIs2xx ==
  /\ (mrResult = "returned" /\ response # NoOutcome) => Is2xx(response)
  /\ \A i \in 1..Len(Requests) :
       (Requests[i].outcome.type = "Response"
          /\ ~Is2xx(Requests[i].outcome)) => i <= Len(errors)

(* ================= properties of the scenario predicates ============== *)

\* C18: in the predicates the scenario tests pass to wait_for_condition,
\* any failure inside the predicate (the HTTP call failing after its R
\* attempts, or an error while reading the answer) makes the predicate
\* return False; so wait_for_condition ends there only with True or
\* TimeoutError, and with TimeoutError only once the timeout has elapsed.
C18_PredicateFailureIsFalse ==
  /\ lastPred.failure # "none" => lastPred.value = "False"
  /\ (predKind \in HttpPredicates /\ pc = "w_done") =>
       /\ waitResult \in {"True", ConditionTimeoutType}
       /\ waitResult = "True" <=>
            (lastPred.value = "True" /\ lastPred.failure = "none")
       /\ waitResult = ConditionTimeoutType => Elapsed >= timeout
  /\ (predKind \in HttpPredicates /\ pc = "w_sleep") =>
       /\ lastPred.value = "False"
       /\ waitResult = "none"

C18_Witness ==
  /\ predKind = "build_config_exists"
  /\ pc = "w_done"
  /\ waitResult = ConditionTimeoutType
  /\ lastPred.failure = "HTTPError"
  /\ evals >= 2

(* ================= properties of the cleanup entry point ============== *)

\* C19: the cleanup entry point exits with 0 only when listing the
\* projects succeeded and every project whose id starts with 'Test' was
\* deleted on the server; if listing fails or the deletion of any such
\* project fails, it exits with 1.
C19_ExitZeroOnlyOnSuccess ==
  pc = "cu_done" =>
    /\ exitCode = 0 =>
         (cuListed = "ok" /\ \A id \in projects : ~IsTestProject(id))
    /\ (cuListed = "failed" \/ cuFailed # {}) => exitCode = 1

(* ================= properties of the scenario tests =================== *)

\* C20: every scenario that depends on the Git repository URL is skipped,
\* not failed, when GIT_REPO_URL is empty: it sends no VCS-root creation
\* and no other request built from the empty URL.
C20_UnconfiguredUrlSkips ==
  (scenario # "none" /\ NotConfigured(gitUrl)) =>
    /\ op # "create_vcs_root"
    /\ ~NotConfigured(vcsUrl)
    /\ pc = "sc_done" => scOutcome = "skipped"

(* ==================== properties of GitOperations ===================== *)

\* C21: a GitOperations instance owns at most one local working directory
\* at any time, and after cleanup() (or after its with-block is left) no
\* temporary directory made by a clone_repo() call of the instance exists.
C21_OneDirectoryRemovedOnCleanup ==
  /\ Cardinality(gitDirs) <= 1
  /\ pc = "git_done" => gitDirs = {}

(* ================= properties of the operations' results ============== *)

\* C22: whenever its request succeeds, get_build_configurations returns a
\* list (possibly empty), for every body of the successful response,
\* including a body without a buildType entry.
C22_BuildConfigurationsIsList ==
  (op = "get_build_configurations" /\ opResult.kind = "returned") =>
    opResult.value = "list"

\* C23: for every configured MAX_RETRIES >= 0 a _make_request call sends at
\* least one request and ends by returning a response object or by raising;
\* it never returns normally without a response (None).
C23_NeverReturnsNone ==
  mrResult # "none" =>
    /\ Len(Requests) >= 1
    /\ mrResult = "returned" => response # NoOutcome

\* C24: if a status poll inside wait_for_build_completion fails after its
\* R attempts, that failure propagates at once to the caller of the wait:
\* the loop does not go on polling, does not turn the failure into its
\* TimeoutError, and issues no further status poll.
C24_PollFailurePropagates ==
  [][ /\ (pc = "op_done" /\ caller = "build_wait"
            /\ opResult.kind = "raised" /\ pc' # pc) =>
           /\ pc' = "bw_done"
           /\ bwResult'.kind = "raised"
           /\ bwResult'.err = opResult.err
           /\ bwResult'.msg # BuildTimeoutMessage
           /\ now' = now
           /\ bwPolls' = bwPolls /\ bwSleeps' = bwSleeps
           /\ polled' = polled
      /\ (pc = "bw_done" /\ pc' # pc) => pc' = "idle"
      /\ (pc' = "bw_done" /\ bwResult'.kind = "raised"
            /\ bwResult'.msg # BuildTimeoutMessage) =>
           /\ bwPolls' = Len(polled') + 1
           /\ bwResult'.err.cls # BuildTimeoutType
    ]_vars

C24_Witness ==
  /\ pc = "bw_done"
  /\ bwResult.kind = "raised"
  /\ bwResult.err.cls = "HTTPError"
  /\ bwResult.err.n = MAX_RETRIES
  /\ MAX_RETRIES >= 2
  /\ Len(polled) >= 1
  /\ now - bwStart < bwTimeout

(* ======================= termination of the waits ===================== *)

\* wait_for_condition is running (its loop, or a predicate it called).
InWaitForCondition ==
  pc \in {"w_check", "w_eval", "w_sleep"} \/ caller = "predicate"

\* wait_for_build_completion is running (its loop, or a status poll).
InBuildWait ==
  pc \in {"bw_check", "bw_sleep"} \/ caller = "build_wait"

\* C25: with a positive poll interval and every predicate evaluation and
\* request attempt terminating, each call of wait_for_condition and of
\* wait_for_build_completion eventually ends, by returning or by raising,
\* even if the condition never holds or the build never gets terminal.
C25_WaitsTerminate ==
  /\ InWaitForCondition ~> (pc = "w_done" /\ waitResult # "none")
  /\ InBuildWait ~> (pc = "bw_done" /\ bwResult.kind # "none")

C25_Witness ==
  /\ pc = "w_done"
  /\ predKind = "never"
  /\ waitResult = ConditionTimeoutType
  /\ poll_interval = 1
  /\ sleeps = timeout
  /\ timeout >= 3

====
